---- MODULE Spec2Model ----
(***************************************************************************)
(* The manual-journal handlers of server/src/http/controllers/Accounting.js *)
(* (makeJournalEntries, editManualJournal, deleteManualJournal) as a state *)
(* machine over the three stores they touch: the manual journals, the      *)
(* account transactions (ledger entries) and the account balances.         *)
(* Every await on a store is one step of a request, so requests of         *)
(* different callers interleave between any two of a handler's awaits.     *)
(* JournalPoster and JournalEntry are imported by the controller and are   *)
(* modelled from the specification's sections 3, 4.1 and 7.                *)
(***************************************************************************)
EXTENDS Integers, Sequences, FiniteSets

VARIABLES
  documents,     \* rows of the ManualJournal table: [id, journal_number, amount]
  nextId,        \* the ManualJournal table's auto-increment id
  transactions,  \* rows of the AccountTransaction table
  balance,       \* the account balances, one per stored account
  proc,          \* each request slot: the handler's position and locals
  hist,          \* history: the completed requests, in order of completion
  ops            \* history: how many requests have been started

vars == <<documents, nextId, transactions, balance, proc, hist, ops>>

----------------------------------------------------------------------------
(* Bounds of the model. *)

MaxOps == 3

MaxOpsConc == 3

MaxAmount == 2

----------------------------------------------------------------------------
(* The account store.  Account 1 is debit-normal, account 2 credit-normal; *)
(* 3 is an id a request can name that the store does not hold.             *)

StoredAccounts == {1, 2}

RequestAccounts == {1, 2, 3}

AccountNormal(a) == IF a = 1 THEN "debit" ELSE "credit"

JournalNumbers == {"J-1", "J-2"}

Procs == {"p1", "p2"}

----------------------------------------------------------------------------
(* Request lines: entries[{account_id, debit, credit}].  An absent or null *)
(* amount and the amount 0 take the same branch at every test the handlers *)
(* make (entry.credit || entry.debit, entry.credit > 0, if (entry.debit)), *)
(* so an absent amount is written 0.                                       *)

Line(a, d, c) == [account_id |-> a, debit |-> d, credit |-> c]

\* The requests of the sequential specifications.
Requests ==
  { <<Line(1, 1, 0), Line(2, 0, 1)>>,
    <<Line(1, 2, 0), Line(2, 0, 2)>>,
    <<Line(2, 1, 0), Line(1, 0, 1)>>,
    <<Line(1, 2, 0), Line(2, 0, 1)>>,
    <<Line(1, 0, 0), Line(2, 0, 0)>>,
    <<Line(1, 2, 0), Line(2, 0, 2), Line(1, -1, 0)>>,
    <<Line(1, 1, 0), Line(3, 0, 1)>>,
    <<Line(1, 1, 1), Line(2, 0, 0)>>,
    <<Line(1, 1, 0), Line(2, 0, 1), Line(1, 0, 0)>>,
    <<Line(1, 1, 0), Line(1, 1, 0), Line(2, 0, 2)>>,
    <<Line(1, 1, 0), Line(1, 0, 1)>>,
    <<Line(3, 1, 0), Line(3, 0, 2)>> }

\* The requests of the concurrent specification.
ConcRequests ==
  { <<Line(1, 1, 0), Line(2, 0, 1)>>,
    <<Line(1, 2, 0), Line(2, 0, 2)>> }

\* The amounts of a line: check('entries.*.debit').isNumeric().toInt() lets a
\* negative integer through.
Amounts == -1 .. MaxAmount

AllLines == { Line(a, d, c) : a \in RequestAccounts, d \in Amounts, c \in Amounts }

\* Every request of two lines, and each of them with a third line that has no
\* amount, or a negative one.
WideRequests ==
  { <<x, y>> : x \in AllLines, y \in AllLines }
  \cup { <<x, y, z>> : x \in AllLines, y \in AllLines,
                       z \in {Line(1, 0, 0), Line(2, -1, 0)} }

----------------------------------------------------------------------------
(* Pure parts of the handlers. *)

\* Mutant: the lines are not filtered.
FilterEntriesAll(lines) == lines

\* form.entries.filter((entry) => (entry.credit || entry.debit))
FilterEntries(lines) == SelectSeq(lines, LAMBDA e : e.credit # 0 \/ e.debit # 0)

RECURSIVE TotalCredit(_)
\* entries.forEach: if (entry.credit > 0) totalCredit += entry.credit
TotalCredit(entries) ==
  IF entries = <<>> THEN 0
  ELSE (IF Head(entries).credit > 0 THEN Head(entries).credit ELSE 0)
       + TotalCredit(Tail(entries))

RECURSIVE TotalDebit(_)
\* entries.forEach: if (entry.debit > 0) totalDebit += entry.debit
TotalDebit(entries) ==
  IF entries = <<>> THEN 0
  ELSE (IF Head(entries).debit > 0 THEN Head(entries).debit ELSE 0)
       + TotalDebit(Tail(entries))

\* Mutant: the totals are not compared with each other.
TotalsErrorsNoMismatch(entries) ==
  IF TotalCredit(entries) <= 0 \/ TotalDebit(entries) <= 0
    THEN <<"CREDIT.DEBIT.SUMATION.SHOULD.NOT.EQUAL.ZERO">> ELSE <<>>

\* The two checks on the totals, each pushing its own error reason.
TotalsErrors(entries) ==
  (IF TotalCredit(entries) <= 0 \/ TotalDebit(entries) <= 0
     THEN <<"CREDIT.DEBIT.SUMATION.SHOULD.NOT.EQUAL.ZERO">> ELSE <<>>)
  \o (IF TotalCredit(entries) # TotalDebit(entries)
     THEN <<"CREDIT.DEBIT.NOT.EQUALS">> ELSE <<>>)

\* entries.map((entry) => entry.account_id)
AccountsIds(entries) == { entries[i].account_id : i \in DOMAIN entries }

\* Account.query().whereIn('id', accountsIds), then difference(...).length > 0
AccountsErrors(entries) ==
  IF AccountsIds(entries) \ (AccountsIds(entries) \cap StoredAccounts) # {}
    THEN <<"ACCOUNTS.IDS.NOT.FOUND">> ELSE <<>>

\* The account ids that the ACCOUNTS.IDS.NOT.FOUND reason holds: the object
\* pushed is { type: 'ACCOUNTS.IDS.NOT.FOUND', code: 200 }, the difference is
\* only tested for its length.
AccountsErrorIds(entries) == {}

\* Mutant: the result of the journal-number query is not looked at.
JournalNumberErrorsIgnored(docs, journal_number) == <<>>

\* ManualJournal.query().where('journal_number', form.journal_number)
JournalNumberErrors(docs, journal_number) ==
  IF \E d \in docs : d.journal_number = journal_number
    THEN <<"JOURNAL.NUMBER.ALREADY.EXISTS">> ELSE <<>>

\* Mutant: the query of the edit handler without its .whereNot('id', id).
JournalNumberErrorsNotMissing(docs, journal_number, id) ==
  IF \E d \in docs : d.journal_number = journal_number
    THEN <<"JOURNAL.NUMBER.ALREADY.EXISTS">> ELSE <<>>

\* The same query with .whereNot('id', id), as the edit handler makes it.
JournalNumberErrorsNot(docs, journal_number, id) ==
  IF \E d \in docs : d.journal_number = journal_number /\ d.id # id
    THEN <<"JOURNAL.NUMBER.ALREADY.EXISTS">> ELSE <<>>

\* JournalEntry's constructor, from sections 3, 4.1 and 7 of the
\* specification: exactly one of debit and credit is set, and it is positive;
\* anything else is rejected at construction with InvalidEntryError.
ValidEntry(debit, credit) ==
  \/ debit > 0 /\ credit = 0
  \/ credit > 0 /\ debit = 0

\* new JournalEntry({debit, credit, account, referenceId, accountNormal}) of
\* the i-th filtered line; the row keeps its place among the document's rows.
NewJournalEntry(entries, i, referenceId) ==
  [ reference_id |-> referenceId,
    index |-> i,
    account |-> entries[i].account_id,
    debit |-> entries[i].debit,
    credit |-> entries[i].credit ]

\* entries.forEach: journalPoster.debit(entry) or journalPoster.credit(entry);
\* either call stages the entry.
StageEntries(entries, referenceId) ==
  { NewJournalEntry(entries, i, referenceId) : i \in DOMAIN entries }

----------------------------------------------------------------------------
(* JournalPoster, from section 4.1 of the specification. *)

\* Balance delta rule of one entry on an account of the given normal side.
EntryDelta(normal, debit, credit) ==
  IF normal = "debit" THEN debit - credit ELSE credit - debit

RECURSIVE SumDelta(_, _)
\* The summed delta on account a of a set of entry rows.
SumDelta(rows, a) ==
  IF rows = {} THEN 0
  ELSE LET r == CHOOSE x \in rows : TRUE
       IN (IF r.account = a
             THEN EntryDelta(AccountNormal(a), r.debit, r.credit) ELSE 0)
          + SumDelta(rows \ {r}, a)

\* commitBalances: the net delta of the staged entries less the removed ones,
\* per account, applied as an increment of the stored balance.
SaveBalance(bal, staged, removed) ==
  [ a \in StoredAccounts |-> bal[a] + SumDelta(staged, a) - SumDelta(removed, a) ]

\* commitEntries: insert all staged entries.
SaveEntries(rows, staged) == rows \cup staged

\* commitEntries: delete all entries pending deletion.
DeleteEntries(rows, removed) == rows \ removed

----------------------------------------------------------------------------
(* Request slots. *)

NoForm == [journal_number |-> "", entries |-> <<>>]

NoRes == [status |-> 0, errors |-> <<>>]

Store == [documents |-> documents, transactions |-> transactions, balance |-> balance]

IdleProc ==
  [ pc |-> "idle", op |-> "none", id |-> 0, form |-> NoForm,
    totalCredit |-> 0, entries |-> <<>>, staged |-> {}, removed |-> {},
    pending |-> {}, failed |-> FALSE, res |-> NoRes, pre |-> Store ]

\* A slot takes a request when it is not serving one.
Free(p) == proc[p].pc \in {"idle", "done"}

\* The slot as a request starts: the locals of the handler's first lines.
Started(op, id, form) ==
  [ IdleProc EXCEPT !.op = op, !.id = id, !.form = form,
                    !.entries = FilterEntries(form.entries),
                    !.totalCredit = TotalCredit(FilterEntries(form.entries)) ]

\* What the history keeps of a request as it completes.
Completed(q, status) ==
  [ op |-> q.op, id |-> q.id, status |-> status, pre |-> q.pre,
    journal_number |-> IF status = 200 THEN q.form.journal_number ELSE "",
    entries |-> IF status = 200 THEN q.entries ELSE <<>>,
    removed |-> IF status = 200 THEN q.removed ELSE {} ]

\* res.status(status).send(...): the handler returns, the request is over.
Respond(p, q, status, errors) ==
  /\ proc' = [proc EXCEPT ![p] =
                [ q EXCEPT !.pc = "done",
                           !.res = [status |-> status, errors |-> errors],
                           !.staged = {}, !.removed = {}, !.pending = {} ]]
  /\ hist' = Append(hist, Completed(q, status))

\* The handler goes on to its next await.
Goto(p, q, pc) ==
  /\ proc' = [proc EXCEPT ![p] = [q EXCEPT !.pc = pc]]
  /\ UNCHANGED hist

Init ==
  /\ documents = {}
  /\ nextId = 1
  /\ transactions = {}
  /\ balance = [a \in StoredAccounts |-> 0]
  /\ proc = [p \in Procs |->
              [ pc |-> "idle", op |-> "none", id |-> 0, form |-> NoForm,
                totalCredit |-> 0, entries |-> <<>>, staged |-> {}, removed |-> {},
                pending |-> {}, failed |-> FALSE, res |-> NoRes,
                pre |-> [documents |-> {}, transactions |-> {},
                         balance |-> [a \in StoredAccounts |-> 0]] ]]
  /\ hist = <<>>
  /\ ops = 0


----------------------------------------------------------------------------
(* makeJournalEntries.handler *)

\* The handler up to its return on errorReasons: the totals, the accounts
\* query and the journal-number query.
CreateBegin(p, form) ==
  /\ Free(p)
  /\ ops' = ops + 1
  /\ LET q == Started("create", 0, form)
         errorReasons == TotalsErrors(q.entries)
                         \o AccountsErrors(q.entries)
                         \o JournalNumberErrors(documents, form.journal_number)
     IN IF errorReasons # <<>>
          THEN Respond(p, q, 400, errorReasons)
          ELSE Goto(p, q, "insert")
  /\ UNCHANGED <<documents, nextId, transactions, balance>>

\* Mutant: the balances are not saved.
CreateCommitEntriesOnly == {"saveEntries"}

\* The members of the handler's Promise.all.
CreateCommit == {"saveEntries", "saveBalance"}

\* ManualJournal.query().insert({...amount: totalCredit}), then the poster is
\* filled with one JournalEntry per filtered line.  A line the JournalEntry
\* constructor rejects makes the handler throw out of the forEach, after the
\* insert.
CreateInsert(p) ==
  /\ proc[p].pc = "insert"
  /\ documents' = documents \cup
       {[ id |-> nextId,
          journal_number |-> proc[p].form.journal_number,
          amount |-> proc[p].totalCredit ]}
  /\ nextId' = nextId + 1
  /\ IF \E i \in DOMAIN proc[p].entries :
          ~ ValidEntry(proc[p].entries[i].debit, proc[p].entries[i].credit)
       THEN Respond(p, [ proc[p] EXCEPT !.id = nextId ], 500, <<"InvalidEntryError">>)
       ELSE Goto(p, [ proc[p] EXCEPT !.id = nextId,
                                      !.staged = StageEntries(proc[p].entries, nextId),
                                      !.pending = CreateCommit ], "commit")
  /\ UNCHANGED <<transactions, balance, ops>>

----------------------------------------------------------------------------
(* editManualJournal.handler *)

\* ManualJournal.query().where('id', id).first(), and the totals.
EditBegin(p, id, form) ==
  /\ Free(p)
  /\ ops' = ops + 1
  /\ LET q == Started("edit", id, form)
     IN IF ~ \E d \in documents : d.id = id
          THEN Respond(p, q, 4040, <<"MANUAL.JOURNAL.NOT.FOUND">>)
          ELSE Goto(p, q, "number")
  /\ UNCHANGED <<documents, nextId, transactions, balance>>

\* Mutant: the document is updated before the return on errorReasons.
EditCheckUpdateFirst(p) ==
  /\ proc[p].pc = "number"
  /\ documents' =
       { IF d.id = proc[p].id
           THEN [ d EXCEPT !.journal_number = proc[p].form.journal_number,
                           !.amount = proc[p].totalCredit ]
           ELSE d : d \in documents }
  /\ LET q == proc[p]
         errorReasons == TotalsErrors(q.entries)
                         \o JournalNumberErrorsNot(documents, q.form.journal_number, q.id)
                         \o AccountsErrors(q.entries)
     IN IF errorReasons # <<>>
          THEN Respond(p, q, 400, errorReasons)
          ELSE Goto(p, q, "load")
  /\ UNCHANGED <<nextId, transactions, balance, ops>>

\* The journal-number query, the accounts query, the return on errorReasons.
EditCheck(p) ==
  /\ proc[p].pc = "number"
  /\ LET q == proc[p]
         errorReasons == TotalsErrors(q.entries)
                         \o JournalNumberErrorsNot(documents, q.form.journal_number, q.id)
                         \o AccountsErrors(q.entries)
     IN IF errorReasons # <<>>
          THEN Respond(p, q, 400, errorReasons)
          ELSE Goto(p, q, "update")
  /\ UNCHANGED <<documents, nextId, transactions, balance, ops>>

\* Mutant: the update without its .where('id', manualJournal.id).
EditUpdateAll(p) ==
  /\ proc[p].pc = "update"
  /\ documents' =
       { [ d EXCEPT !.journal_number = proc[p].form.journal_number,
                    !.amount = proc[p].totalCredit ] : d \in documents }
  /\ Goto(p, proc[p], "load")
  /\ UNCHANGED <<nextId, transactions, balance, ops>>

\* ManualJournal.query().where('id', manualJournal.id).update({...}); the
\* update's journalNumber key is taken to reach the journal_number column
\* that the insert and the queries name.
EditUpdate(p) ==
  /\ proc[p].pc = "update"
  /\ documents' =
       { IF d.id = proc[p].id
           THEN [ d EXCEPT !.journal_number = proc[p].form.journal_number,
                           !.amount = proc[p].totalCredit ]
           ELSE d : d \in documents }
  /\ Goto(p, proc[p], "load")
  /\ UNCHANGED <<nextId, transactions, balance, ops>>

\* Mutant: the balances are not saved after an edit.
EditCommitNoBalance == {"deleteEntries", "saveEntries"}

\* The members of the handler's Promise.all.
EditCommit == {"deleteEntries", "saveEntries", "saveBalance"}

\* The entries the handler stages for the poster to save.
EditStaged(entries, id) == {}

\* AccountTransaction.query()...where('reference_id', manualJournal.id), then
\* journal.loadEntries(transactions); journal.removeEntries().
EditLoad(p) ==
  /\ proc[p].pc = "load"
  /\ Goto(p, [ proc[p] EXCEPT
                 !.removed = { t \in transactions : t.reference_id = proc[p].id },
                 !.staged = EditStaged(proc[p].entries, proc[p].id),
                 !.pending = EditCommit ], "commit")
  /\ UNCHANGED <<documents, nextId, transactions, balance, ops>>

----------------------------------------------------------------------------
(* deleteManualJournal.handler *)

\* ManualJournal.query().where('id', id).first()
DeleteBegin(p, id) ==
  /\ Free(p)
  /\ ops' = ops + 1
  /\ LET q == Started("delete", id, NoForm)
     IN IF ~ \E d \in documents : d.id = id
          THEN Respond(p, q, 404, <<"MANUAL.JOURNAL.NOT.FOUND">>)
          ELSE Goto(p, q, "find")
  /\ UNCHANGED <<documents, nextId, transactions, balance>>

\* AccountTransaction.query()...where('reference_id', manualJournal.id), then
\* journal.loadEntries(transactions); journal.removeEntries().  Every row the
\* handlers write has reference type 'Journal', which both this query's
\* whereIn and the edit handler's accept.
DeleteLoad(p) ==
  /\ proc[p].pc = "find"
  /\ Goto(p, [ proc[p] EXCEPT
                 !.removed = { t \in transactions : t.reference_id = proc[p].id } ],
          "delete")
  /\ UNCHANGED <<documents, nextId, transactions, balance, ops>>

\* Mutant: the balances are not saved.
DeleteCommitEntriesOnly == {"deleteEntries"}

\* The members of the handler's Promise.all.
DeleteCommit == {"deleteEntries", "saveBalance"}

\* Mutant: the document's row is not deleted.
DeleteDocumentKept(p) ==
  /\ proc[p].pc = "delete"
  /\ Goto(p, [ proc[p] EXCEPT !.pending = DeleteCommit ], "commit")
  /\ UNCHANGED <<documents, nextId, transactions, balance, ops>>

\* ManualJournal.query().where('id', manualJournal.id).delete()
DeleteDocument(p) ==
  /\ proc[p].pc = "delete"
  /\ documents' = { d \in documents : d.id # proc[p].id }
  /\ Goto(p, [ proc[p] EXCEPT !.pending = DeleteCommit ], "commit")
  /\ UNCHANGED <<nextId, transactions, balance, ops>>

----------------------------------------------------------------------------
(* The members of a handler's Promise.all, in any order; the handler sends *)
(* its response when the last of them has settled.                         *)

Settle(p, member) ==
  LET q == [ proc[p] EXCEPT !.pending = @ \ {member} ]
  IN IF q.pending = {}
       THEN IF q.failed
              THEN Respond(p, q, 500, <<"PERSISTENCE">>)
              ELSE Respond(p, q, 200, <<>>)
       ELSE Goto(p, q, "commit")

\* journal.saveEntries()
CommitSaveEntries(p) ==
  /\ proc[p].pc = "commit"
  /\ "saveEntries" \in proc[p].pending
  /\ transactions' = SaveEntries(transactions, proc[p].staged)
  /\ Settle(p, "saveEntries")
  /\ UNCHANGED <<documents, nextId, balance, ops>>

\* journal.deleteEntries()
CommitDeleteEntries(p) ==
  /\ proc[p].pc = "commit"
  /\ "deleteEntries" \in proc[p].pending
  /\ transactions' = DeleteEntries(transactions, proc[p].removed)
  /\ Settle(p, "deleteEntries")
  /\ UNCHANGED <<documents, nextId, balance, ops>>

\* journal.saveBalance()
CommitSaveBalance(p) ==
  /\ proc[p].pc = "commit"
  /\ "saveBalance" \in proc[p].pending
  /\ balance' = SaveBalance(balance, proc[p].staged, proc[p].removed)
  /\ Settle(p, "saveBalance")
  /\ UNCHANGED <<documents, nextId, transactions, ops>>

----------------------------------------------------------------------------
(* The store rejects a write: the awaited promise rejects and the handler  *)
(* throws out of its body; the writes it made before stay as they are.     *)

FailWrite(p) ==
  /\ proc[p].pc \in {"insert", "update", "delete"}
  /\ Respond(p, proc[p], 500, <<"PERSISTENCE">>)
  /\ UNCHANGED <<documents, nextId, transactions, balance, ops>>

\* One member of the Promise.all rejects; the others still run.
FailCommit(p) ==
  /\ proc[p].pc = "commit"
  /\ \E member \in proc[p].pending :
       LET q == [ proc[p] EXCEPT !.pending = @ \ {member}, !.failed = TRUE ]
       IN IF q.pending = {}
            THEN Respond(p, q, 500, <<"PERSISTENCE">>)
            ELSE Goto(p, q, "commit")
  /\ UNCHANGED <<documents, nextId, transactions, balance, ops>>

----------------------------------------------------------------------------
(* Specifications. *)

\* The document ids a request can name: every id given out, and the next.
Ids == 1 .. nextId

Receive(p, requests) ==
  \/ \E jn \in JournalNumbers, lines \in requests :
       CreateBegin(p, [journal_number |-> jn, entries |-> lines])
  \/ \E id \in Ids, jn \in JournalNumbers, lines \in requests :
       EditBegin(p, id, [journal_number |-> jn, entries |-> lines])
  \/ \E id \in Ids : DeleteBegin(p, id)

Step(p) ==
  \/ CreateInsert(p)
  \/ EditCheck(p)
  \/ EditUpdate(p)
  \/ EditLoad(p)
  \/ DeleteLoad(p)
  \/ DeleteDocument(p)
  \/ CommitSaveEntries(p)
  \/ CommitDeleteEntries(p)
  \/ CommitSaveBalance(p)

\* One caller, one request after the other.
Next ==
  \/ ops < MaxOps /\ Receive("p1", Requests)
  \/ Step("p1")

Spec == Init /\ [][Next]_vars

\* Concurrent callers.
NextConc ==
  \E p \in Procs :
    \/ ops < MaxOpsConc /\ Receive(p, ConcRequests)
    \/ Step(p)

SpecConc == Init /\ [][NextConc]_vars

\* One caller, and a store that can reject any write.
NextFault ==
  \/ Next
  \/ FailWrite("p1")
  \/ FailCommit("p1")

SpecFault == Init /\ [][NextFault]_vars

\* One createJournal request, any of WideRequests, on an empty store or on
\* a store that holds one journal.
InitWide ==
  /\ \/ /\ documents = {}
        /\ nextId = 1
        /\ transactions = {}
        /\ balance = [a \in StoredAccounts |-> 0]
     \/ /\ documents = {[id |-> 1, journal_number |-> "J-1", amount |-> 1]}
        /\ nextId = 2
        /\ transactions = StageEntries(<<Line(1, 1, 0), Line(2, 0, 1)>>, 1)
        /\ balance = SaveBalance([a \in StoredAccounts |-> 0],
                                 StageEntries(<<Line(1, 1, 0), Line(2, 0, 1)>>, 1), {})
  /\ proc = [p \in Procs |->
              [ pc |-> "idle", op |-> "none", id |-> 0, form |-> NoForm,
                totalCredit |-> 0, entries |-> <<>>, staged |-> {}, removed |-> {},
                pending |-> {}, failed |-> FALSE, res |-> NoRes,
                pre |-> [documents |-> {}, transactions |-> {},
                         balance |-> [a \in StoredAccounts |-> 0]] ]]
  /\ hist = <<>>
  /\ ops = 0

NextWide ==
  \/ /\ ops = 0
     /\ \E jn \in JournalNumbers, lines \in WideRequests :
          CreateBegin("p1", [journal_number |-> jn, entries |-> lines])
  \/ CreateInsert("p1")
  \/ CommitSaveEntries("p1")
  \/ CommitSaveBalance("p1")

SpecWide == InitWide /\ [][NextWide]_vars

----------------------------------------------------------------------------
(* getManualJournal.handler *)

\* ManualJournal.query().where('id', id).first(); a missing document is
\* answered with 404; with the document found the handler's body ends, and
\* the handler returns with no response sent.
GetManualJournal(p, id) ==
  /\ Free(p)
  /\ ops' = ops + 1
  /\ LET q == Started("get", id, NoForm)
     IN IF ~ \E d \in documents : d.id = id
          THEN Respond(p, q, 404, <<"MANUAL.JOURNAL.NOT.FOUND">>)
          ELSE Goto(p, q, "returned")
  /\ UNCHANGED <<documents, nextId, transactions, balance>>

\* One caller that also reads journals.
NextGet ==
  \/ ops < MaxOps /\ Receive("p1", ConcRequests)
  \/ ops < MaxOps /\ \E id \in Ids : GetManualJournal("p1", id)
  \/ Step("p1")

SpecGet == Init /\ [][NextGet]_vars

----------------------------------------------------------------------------
(* Properties. *)

\* No request is being served.
Quiescent == \A p \in Procs : Free(p)

\* The request completed last.
Last == hist[Len(hist)]

\* The committed entries of a document in a store.
EntriesOf(rows, id) == { t \in rows : t.reference_id = id }

RECURSIVE SumDebit(_)
SumDebit(rows) ==
  IF rows = {} THEN 0
  ELSE LET r == CHOOSE x \in rows : TRUE IN r.debit + SumDebit(rows \ {r})

RECURSIVE SumCredit(_)
SumCredit(rows) ==
  IF rows = {} THEN 0
  ELSE LET r == CHOOSE x \in rows : TRUE IN r.credit + SumCredit(rows \ {r})

RECURSIVE LinesDebit(_)
LinesDebit(lines) ==
  IF lines = <<>> THEN 0 ELSE Head(lines).debit + LinesDebit(Tail(lines))

RECURSIVE LinesCredit(_)
LinesCredit(lines) ==
  IF lines = <<>> THEN 0 ELSE Head(lines).credit + LinesCredit(Tail(lines))

RECURSIVE PostedDelta(_, _)
\* The claimed balance change on account a of a set of posted entries:
\* +debit - credit on a debit-normal account, +credit - debit on a
\* credit-normal one.
PostedDelta(rows, a) ==
  IF rows = {} THEN 0
  ELSE LET r == CHOOSE x \in rows : TRUE
       IN (IF r.account # a THEN 0
           ELSE IF a = 1 THEN r.debit - r.credit ELSE r.credit - r.debit)
          + PostedDelta(rows \ {r}, a)

\* C1: when no request is in progress, every journal document has committed
\* entries whose debits and credits both sum to its stored amount, which is
\* greater than zero.
C1_BalancedDocuments ==
  Quiescent =>
    \A d \in documents :
      /\ SumDebit(EntriesOf(transactions, d.id)) = d.amount
      /\ SumCredit(EntriesOf(transactions, d.id)) = d.amount
      /\ d.amount > 0

\* C2: after a successful editJournal(D.id, E') every balance is what it
\* would be had D never been posted and E' been posted directly: the balance
\* before the edit, less the effect of D's old entries, plus the effect of E'.
C2_EditReversalCorrect ==
  (Quiescent /\ hist # <<>> /\ Last.op = "edit" /\ Last.status = 200) =>
    \A a \in StoredAccounts :
      balance[a] = Last.pre.balance[a]
                   - PostedDelta(EntriesOf(Last.pre.transactions, Last.id), a)
                   + PostedDelta(StageEntries(Last.entries, Last.id), a)

\* C3: after a request that failed on a rejected write, the documents, the
\* entries and the balances are exactly as they were when the request started.
C3_FailureLeavesNoTrace ==
  (Quiescent /\ hist # <<>> /\ Last.status = 500
     /\ proc["p1"].res.errors = <<"PERSISTENCE">>) => Store = Last.pre

\* C4: a createJournal whose lines' total debit differs from their total
\* credit is rejected with the mismatch error, one whose total debit or total
\* credit is not greater than zero with the zero-total error, and in both
\* cases the store is left as it was.
C4_UnbalancedCreateRejected ==
  (Quiescent /\ hist # <<>> /\ Last.op = "create") =>
    LET lines == proc["p1"].form.entries
        errors == proc["p1"].res.errors
    IN /\ LinesDebit(lines) # LinesCredit(lines) =>
            /\ \E i \in DOMAIN errors : errors[i] = "CREDIT.DEBIT.NOT.EQUALS"
            /\ Store = Last.pre
       /\ (LinesDebit(lines) <= 0 \/ LinesCredit(lines) <= 0) =>
            /\ \E i \in DOMAIN errors :
                 errors[i] = "CREDIT.DEBIT.SUMATION.SHOULD.NOT.EQUAL.ZERO"
            /\ Store = Last.pre

\* C5: after a successful createJournal every balance has changed by exactly
\* the summed delta of the entries posted for the new document on that
\* account; debit 1 on the debit-normal account and credit 1 on the
\* credit-normal account, from zero balances, give balances +1 and +1 and a
\* document of amount 1.
C5_CreateAppliesDeltas ==
  (Quiescent /\ hist # <<>> /\ Last.op = "create" /\ Last.status = 200) =>
    /\ \A a \in StoredAccounts :
         balance[a] = Last.pre.balance[a]
                      + PostedDelta(EntriesOf(transactions, proc["p1"].id), a)
    /\ ( /\ proc["p1"].form.entries = <<Line(1, 1, 0), Line(2, 0, 1)>>
         /\ \A a \in StoredAccounts : Last.pre.balance[a] = 0 ) =>
         /\ balance[1] = 1
         /\ balance[2] = 1
         /\ \E d \in documents : d.id = proc["p1"].id /\ d.amount = 1

\* A successful create that moved both balances, one of them downwards.
C5_Witness ==
  /\ Quiescent /\ hist # <<>> /\ Last.op = "create" /\ Last.status = 200
  /\ Last.pre.balance[1] = 1
  /\ balance[1] = 0
  /\ balance[2] # Last.pre.balance[2]

\* C6: after a successful createJournal of D directly followed by a
\* successful deleteJournal(D.id), every balance is what it was before the
\* create, no committed entry references D and D is not among the documents.
C6_CreateDeleteRoundTrip ==
  (Quiescent /\ Len(hist) >= 2
     /\ hist[Len(hist) - 1].op = "create" /\ hist[Len(hist) - 1].status = 200
     /\ Last.op = "delete" /\ Last.status = 200
     /\ Last.id = hist[Len(hist) - 1].id) =>
    /\ balance = hist[Len(hist) - 1].pre.balance
    /\ EntriesOf(transactions, Last.id) = {}
    /\ ~ \E d \in documents : d.id = Last.id

\* A journal created on a store with non-zero balances, then deleted.
C6_Witness ==
  /\ Quiescent /\ Len(hist) = 3
  /\ hist[2].op = "create" /\ hist[2].status = 200
  /\ hist[3].op = "delete" /\ hist[3].status = 200 /\ hist[3].id = hist[2].id
  /\ hist[2].pre.balance[1] # 0
  /\ EntriesOf(hist[3].pre.transactions, hist[3].id) # {}

\* C7: a deleteJournal(id) made after a deleteJournal of the same id has
\* succeeded answers not-found and leaves documents, entries and balances
\* unchanged.
C7_SecondDeleteNotFound ==
  (Quiescent /\ hist # <<>> /\ Last.op = "delete"
     /\ \E i \in 1 .. Len(hist) - 1 :
          hist[i].op = "delete" /\ hist[i].status = 200 /\ hist[i].id = Last.id) =>
    /\ Last.status = 404
    /\ proc["p1"].res.errors = <<"MANUAL.JOURNAL.NOT.FOUND">>
    /\ Store = Last.pre

\* The same id deleted twice, the second time without success.
C7_Witness ==
  /\ Quiescent /\ Len(hist) = 3
  /\ hist[2].op = "delete" /\ hist[2].status = 200
  /\ hist[3].op = "delete" /\ hist[3].id = hist[2].id /\ hist[3].status = 404

\* C8: a createJournal whose journal number is that of a stored document is
\* rejected with the duplicate-number error and creates nothing; the earlier
\* document stays stored.
C8_DuplicateNumberRejected ==
  (Quiescent /\ hist # <<>> /\ Last.op = "create"
     /\ \E d \in Last.pre.documents :
          d.journal_number = proc["p1"].form.journal_number) =>
    /\ Last.status = 400
    /\ \E i \in DOMAIN proc["p1"].res.errors :
         proc["p1"].res.errors[i] = "JOURNAL.NUMBER.ALREADY.EXISTS"
    /\ Store = Last.pre
    /\ \E d \in documents : d.journal_number = proc["p1"].form.journal_number

\* A valid request rejected for its journal number alone.
C8_Witness ==
  /\ Quiescent /\ Len(hist) = 2
  /\ hist[1].op = "create" /\ hist[1].status = 200
  /\ Last.op = "create" /\ Last.status = 400
  /\ proc["p1"].res.errors = <<"JOURNAL.NUMBER.ALREADY.EXISTS">>
  /\ documents # {}

\* C9: no two stored journal documents have the same journal number.
C9_UniqueJournalNumbers ==
  \A d1 \in documents : \A d2 \in documents :
    d1.id # d2.id => d1.journal_number # d2.journal_number

\* The intended balance change on account a of a completed request: a create
\* posts its lines, a delete reverses the document's entries, an edit
\* reverses the old entries and posts the new lines.
IntendedDelta(h, a) ==
  IF h.status # 200 THEN 0
  ELSE PostedDelta(StageEntries(h.entries, h.id), a) - PostedDelta(h.removed, a)

RECURSIVE SumIntended(_, _)
SumIntended(hs, a) ==
  IF hs = <<>> THEN 0 ELSE IntendedDelta(Head(hs), a) + SumIntended(Tail(hs), a)

\* C10: when every request has completed and all succeeded, each balance is
\* the initial balance (zero) plus the summed deltas of all the requests.
C10_NoLostBalanceUpdate ==
  (Quiescent /\ \A i \in DOMAIN hist : hist[i].status = 200) =>
    \A a \in StoredAccounts : balance[a] = SumIntended(hist, a)

\* C11: in every state, a request in progress or not, every document has
\* committed entries with equal debit and credit sums, every committed entry
\* references a document, and every balance is the sum of the effects of the
\* committed entries: no part of an operation is visible without the rest.
C11_NoPartialApplication ==
  /\ \A d \in documents :
       /\ EntriesOf(transactions, d.id) # {}
       /\ SumDebit(EntriesOf(transactions, d.id))
            = SumCredit(EntriesOf(transactions, d.id))
  /\ \A t \in transactions : \E d \in documents : d.id = t.reference_id
  /\ \A a \in StoredAccounts : balance[a] = PostedDelta(transactions, a)

\* The store after the successful createJournal h has run alone.
PostCreate(h) ==
  [ documents |-> h.pre.documents \cup
                    {[ id |-> h.id, journal_number |-> h.journal_number,
                       amount |-> TotalCredit(h.entries) ]},
    transactions |-> SaveEntries(h.pre.transactions, StageEntries(h.entries, h.id)),
    balance |-> SaveBalance(h.pre.balance, StageEntries(h.entries, h.id), {}) ]

\* The store after deleteJournal(id) has run alone on the store S.
SerialDelete(S, id) ==
  IF ~ \E d \in S.documents : d.id = id THEN S
  ELSE [ documents |-> { d \in S.documents : d.id # id },
         transactions |-> DeleteEntries(S.transactions, EntriesOf(S.transactions, id)),
         balance |-> SaveBalance(S.balance, {}, EntriesOf(S.transactions, id)) ]

\* The store after the editJournal h, whose lines passed the checks, has run
\* alone on the store S.
SerialEdit(S, h) ==
  IF \/ ~ \E d \in S.documents : d.id = h.id
     \/ JournalNumberErrorsNot(S.documents, h.journal_number, h.id) # <<>>
    THEN S
    ELSE [ documents |-> { IF d.id = h.id
                             THEN [ d EXCEPT !.journal_number = h.journal_number,
                                             !.amount = TotalCredit(h.entries) ]
                             ELSE d : d \in S.documents },
           transactions |->
             SaveEntries(DeleteEntries(S.transactions, EntriesOf(S.transactions, h.id)),
                         EditStaged(h.entries, h.id)),
           balance |-> SaveBalance(S.balance, EditStaged(h.entries, h.id),
                                   EntriesOf(S.transactions, h.id)) ]

Serial(S, h) ==
  IF h.op = "delete" THEN SerialDelete(S, h.id) ELSE SerialEdit(S, h)

\* C12: when an editJournal or deleteJournal and another one on the same
\* document have both started on the store a createJournal left, and both
\* have completed, the store is the one that running the two alone, one after
\* the other in some order, would leave; and of two such deleteJournal calls
\* at most one succeeds.
C12_SameDocumentLinearizable ==
  (/\ Quiescent /\ Len(hist) = 3
   /\ hist[1].op = "create" /\ hist[1].status = 200
   /\ \A i \in {2, 3} :
        /\ hist[i].op \in {"edit", "delete"}
        /\ hist[i].id = hist[1].id
        /\ hist[i].pre = PostCreate(hist[1])
        /\ hist[i].op = "edit" => hist[i].status = 200) =>
    /\ \/ Store = Serial(Serial(PostCreate(hist[1]), hist[2]), hist[3])
       \/ Store = Serial(Serial(PostCreate(hist[1]), hist[3]), hist[2])
    /\ (hist[2].op = "delete" /\ hist[3].op = "delete") =>
         ~ (hist[2].status = 200 /\ hist[3].status = 200)

\* C13: after a createJournal or editJournal that failed on a validation
\* error (zero total, mismatch, unknown account, duplicate number, document
\* not found), the documents, the entries and the balances are exactly as
\* they were when the request started.
C13_ValidationFailureChangesNothing ==
  (Quiescent /\ hist # <<>> /\ Last.op \in {"create", "edit"}
     /\ Last.status \in {400, 4040}) => Store = Last.pre

\* An editJournal of an existing document rejected on its lines.
C13_Witness ==
  /\ Quiescent /\ hist # <<>> /\ Last.op = "edit" /\ Last.status = 400
  /\ \E d \in Last.pre.documents : d.id = Last.id
  /\ \E d \in documents : d.journal_number # proc["p1"].form.journal_number

\* The account ids of the lines with a debit or a credit that no stored
\* account has.
MissingAccounts(lines) ==
  { lines[i].account_id : i \in { j \in DOMAIN lines :
                                    lines[j].debit # 0 \/ lines[j].credit # 0 } }
    \ StoredAccounts

\* C14: a createJournal, or an editJournal of an existing document, with a
\* line of a debit or a credit on an account that is not stored fails with
\* the unknown-account error, and the error holds exactly the missing ids.
C14_UnknownAccountsReported ==
  (Quiescent /\ hist # <<>> /\ Last.op \in {"create", "edit"}
     /\ Last.status # 4040
     /\ MissingAccounts(proc["p1"].form.entries) # {}) =>
    /\ Last.status = 400
    /\ \E i \in DOMAIN proc["p1"].res.errors :
         proc["p1"].res.errors[i] = "ACCOUNTS.IDS.NOT.FOUND"
    /\ AccountsErrorIds(proc["p1"].entries) = MissingAccounts(proc["p1"].form.entries)

\* C15: an editJournal whose id names no document fails with the not-found
\* error as deleteJournal and getJournal give it, status 404 with
\* MANUAL.JOURNAL.NOT.FOUND, and leaves the documents, the entries and the
\* balances as they were.
C15_EditNotFound ==
  (Quiescent /\ hist # <<>> /\ Last.op = "edit"
     /\ ~ \E d \in Last.pre.documents : d.id = Last.id) =>
    /\ Last.status = 404
    /\ proc["p1"].res.errors = <<"MANUAL.JOURNAL.NOT.FOUND">>
    /\ Store = Last.pre

\* A request line with both a debit and a credit, or with a negative amount.
InvalidLine(l) ==
  \/ l.debit # 0 /\ l.credit # 0
  \/ l.debit < 0
  \/ l.credit < 0

\* Every committed entry has exactly one of debit and credit, greater than
\* zero.
CommittedEntriesValid ==
  \A t \in transactions :
    \/ t.debit > 0 /\ t.credit = 0
    \/ t.credit > 0 /\ t.debit = 0

\* C16: every committed entry has exactly one of debit and credit, greater
\* than zero; and a createJournal or editJournal that passed the checks on the
\* totals, the accounts, the number and the document, with a line of both a
\* debit and a credit or of a negative amount, ends with InvalidEntryError.
C16_NoInvalidEntryCommitted ==
  /\ CommittedEntriesValid
  /\ (Quiescent /\ hist # <<>> /\ Last.op \in {"create", "edit"}
        /\ Last.status \notin {400, 4040}
        /\ \E i \in DOMAIN proc["p1"].form.entries :
             InvalidLine(proc["p1"].form.entries[i])) =>
       /\ Last.status # 200
       /\ proc["p1"].res.errors = <<"InvalidEntryError">>

RECURSIVE Kept(_)
\* The lines of a request that have a debit or a credit, in their order.
Kept(lines) ==
  IF lines = <<>> THEN <<>>
  ELSE IF Head(lines).debit = 0 /\ Head(lines).credit = 0
         THEN Kept(Tail(lines))
         ELSE <<Head(lines)>> \o Kept(Tail(lines))

\* One entry of document id per kept line, on the line's account and with
\* the line's amounts.
LineEntries(lines, id) ==
  { [ reference_id |-> id, index |-> i, account |-> Kept(lines)[i].account_id,
      debit |-> Kept(lines)[i].debit, credit |-> Kept(lines)[i].credit ] :
    i \in DOMAIN Kept(lines) }

\* C17: after a successful editJournal the committed entries of the document
\* are exactly one per line of the request that has a debit or a credit, on
\* that line's account and with its amounts, and none of the document's
\* entries from before the edit is among the committed entries unless the
\* request has it again.
C17_EditReplacesEntries ==
  (Quiescent /\ hist # <<>> /\ Last.op = "edit" /\ Last.status = 200) =>
    /\ EntriesOf(transactions, Last.id)
         = LineEntries(proc["p1"].form.entries, Last.id)
    /\ (EntriesOf(Last.pre.transactions, Last.id)
          \ LineEntries(proc["p1"].form.entries, Last.id)) \cap transactions = {}

\* The request's errors include the duplicate-number error.
DuplicateReported ==
  \E i \in DOMAIN proc["p1"].res.errors :
    proc["p1"].res.errors[i] = "JOURNAL.NUMBER.ALREADY.EXISTS"

\* C18: an editJournal of an existing document D whose journal number is D's
\* own, and no other document's, is not given the duplicate-number error; one
\* whose journal number is that of another document fails with the
\* duplicate-number error and leaves D and the rest of the store unchanged.
C18_EditUniquenessExcludesSelf ==
  (Quiescent /\ hist # <<>> /\ Last.op = "edit"
     /\ \E d \in Last.pre.documents : d.id = Last.id) =>
    /\ (/\ \E d \in Last.pre.documents :
              d.id = Last.id /\ d.journal_number = proc["p1"].form.journal_number
        /\ ~ \E d \in Last.pre.documents :
              d.id # Last.id /\ d.journal_number = proc["p1"].form.journal_number) =>
         ~ DuplicateReported
    /\ (\E d \in Last.pre.documents :
           d.id # Last.id /\ d.journal_number = proc["p1"].form.journal_number) =>
         /\ Last.status = 400
         /\ DuplicateReported
         /\ Store = Last.pre

\* An editJournal of document 1 with its own number, a second document being
\* stored, has succeeded.
C18_Witness ==
  /\ Quiescent /\ hist # <<>> /\ Last.op = "edit" /\ Last.status = 200
  /\ \E d \in Last.pre.documents :
       d.id = Last.id /\ d.journal_number = proc["p1"].form.journal_number
  /\ \E d \in Last.pre.documents : d.id # Last.id

\* An editJournal with the number of another document has been rejected.
C18_OtherNumberRejected ==
  /\ Quiescent /\ hist # <<>> /\ Last.op = "edit" /\ Last.status = 400
  /\ \E d \in documents :
       d.id # Last.id /\ d.journal_number = proc["p1"].form.journal_number
  /\ \E d \in documents : d.id = Last.id
  /\ proc["p1"].res.errors = <<"JOURNAL.NUMBER.ALREADY.EXISTS">>

\* The kept lines of the request make a journal that nothing forbids: each
\* has one positive amount, on a stored account, debits equal credits, and no
\* stored document has the journal number.
KeptLinesAcceptable(form, docs) ==
  /\ Kept(form.entries) # <<>>
  /\ \A i \in DOMAIN Kept(form.entries) :
       /\ ~ InvalidLine(Kept(form.entries)[i])
       /\ Kept(form.entries)[i].account_id \in StoredAccounts
  /\ LinesDebit(Kept(form.entries)) = LinesCredit(Kept(form.entries))
  /\ ~ \E d \in docs : d.journal_number = form.journal_number

\* C19: the lines of a createJournal with neither a debit nor a credit count
\* for nothing: a request whose other lines are acceptable succeeds with the
\* document's amount the total of those lines, and a successful createJournal
\* commits exactly one entry per line that has a debit or a credit, on that
\* line's account and with its amounts.
C19_EmptyLinesDropped ==
  (Quiescent /\ hist # <<>> /\ Last.op = "create") =>
    /\ KeptLinesAcceptable(proc["p1"].form, Last.pre.documents) =>
         /\ Last.status = 200
         /\ \E d \in documents :
              d.id = Last.id /\ d.amount = LinesCredit(Kept(proc["p1"].form.entries))
    /\ Last.status = 200 =>
         /\ EntriesOf(transactions, Last.id)
              = LineEntries(proc["p1"].form.entries, Last.id)
         /\ Cardinality(EntriesOf(transactions, Last.id))
              = Len(Kept(proc["p1"].form.entries))

\* A createJournal of three lines, one of them with neither a debit nor a
\* credit, has succeeded with two committed entries.
C19_Witness ==
  /\ Quiescent /\ hist # <<>> /\ Last.op = "create" /\ Last.status = 200
  /\ Len(proc["p1"].form.entries) = 3
  /\ Len(Kept(proc["p1"].form.entries)) = 2
  /\ Cardinality(EntriesOf(transactions, Last.id)) = 2

\* C20: once the handler of a getJournal(id) has returned, the request has
\* its result: the document when the store held a document id as the request
\* started, so after a createJournal that succeeded, and the not-found error
\* when it held none, so after a deleteJournal that succeeded.
C20_GetCompletes ==
  \A p \in Procs :
    (proc[p].op = "get" /\ proc[p].pc \in {"done", "returned"}) =>
      IF \E d \in proc[p].pre.documents : d.id = proc[p].id
        THEN proc[p].res.status = 200
        ELSE /\ proc[p].res.status = 404
             /\ proc[p].res.errors = <<"MANUAL.JOURNAL.NOT.FOUND">>

\* The not-found half, which the handler gives.
GetNotFound ==
  \A p \in Procs :
    (proc[p].op = "get" /\ proc[p].pc \in {"done", "returned"}
       /\ ~ \E d \in proc[p].pre.documents : d.id = proc[p].id) =>
      /\ proc[p].pc = "done"
      /\ proc[p].res.status = 404
      /\ proc[p].res.errors = <<"MANUAL.JOURNAL.NOT.FOUND">>

\* The last request's errors include the given kind.
Reported(type) ==
  \E i \in DOMAIN proc["p1"].res.errors : proc["p1"].res.errors[i] = type

\* The last request's journal number is that of a stored document, other than
\* the edited one.
NumberTaken ==
  \E d \in Last.pre.documents :
    /\ d.journal_number = proc["p1"].form.journal_number
    /\ Last.op = "edit" => d.id # Last.id

\* The kinds of check the last request violates, the totals being the sums
\* of the debits and of the credits of its lines.
ViolatedKinds ==
  LET K == Kept(proc["p1"].form.entries)
  IN (IF LinesDebit(K) <= 0 \/ LinesCredit(K) <= 0
        THEN {"CREDIT.DEBIT.SUMATION.SHOULD.NOT.EQUAL.ZERO"} ELSE {})
     \cup (IF LinesDebit(K) # LinesCredit(K)
             THEN {"CREDIT.DEBIT.NOT.EQUALS"} ELSE {})
     \cup (IF MissingAccounts(proc["p1"].form.entries) # {}
             THEN {"ACCOUNTS.IDS.NOT.FOUND"} ELSE {})
     \cup (IF NumberTaken THEN {"JOURNAL.NUMBER.ALREADY.EXISTS"} ELSE {})

RECURSIVE PositiveDebit(_)
\* The sum of the debits greater than zero.
PositiveDebit(lines) ==
  IF lines = <<>> THEN 0
  ELSE (IF Head(lines).debit > 0 THEN Head(lines).debit ELSE 0)
       + PositiveDebit(Tail(lines))

RECURSIVE PositiveCredit(_)
\* The sum of the credits greater than zero.
PositiveCredit(lines) ==
  IF lines = <<>> THEN 0
  ELSE (IF Head(lines).credit > 0 THEN Head(lines).credit ELSE 0)
       + PositiveCredit(Tail(lines))

\* The kinds of check the last request violates, the totals being those of
\* the amounts greater than zero.
ViolatedKindsPositive ==
  LET K == proc["p1"].form.entries
  IN (IF PositiveDebit(K) <= 0 \/ PositiveCredit(K) <= 0
        THEN {"CREDIT.DEBIT.SUMATION.SHOULD.NOT.EQUAL.ZERO"} ELSE {})
     \cup (IF PositiveDebit(K) # PositiveCredit(K)
             THEN {"CREDIT.DEBIT.NOT.EQUALS"} ELSE {})
     \cup (IF MissingAccounts(proc["p1"].form.entries) # {}
             THEN {"ACCOUNTS.IDS.NOT.FOUND"} ELSE {})
     \cup (IF NumberTaken THEN {"JOURNAL.NUMBER.ALREADY.EXISTS"} ELSE {})

\* C21: a createJournal, or an editJournal of an existing document, that
\* violates two or more of the checks (zero total, debit/credit mismatch,
\* unknown account, duplicate journal number) fails with one response that
\* names every kind it violates.
C21_AllViolationsReported ==
  (Quiescent /\ hist # <<>> /\ Last.op \in {"create", "edit"}
     /\ Last.status # 4040
     /\ Cardinality(ViolatedKinds) >= 2) =>
    /\ Last.status = 400
    /\ \A k \in ViolatedKinds : Reported(k)

\* With the totals as the handlers sum them, every violated kind is named.
PositiveViolationsReported ==
  (Quiescent /\ hist # <<>> /\ Last.op \in {"create", "edit"}
     /\ Last.status # 4040
     /\ ViolatedKindsPositive # {}) =>
    /\ Last.status = 400
    /\ \A k \in ViolatedKindsPositive : Reported(k)

\* C22: when no request is in progress, the calls having run one after the
\* other from zero balances and no entries, the balance of every account is
\* the sum, over the committed entries on that account, of the delta that the
\* account's normal side gives.
C22_BalancesDerivedFromEntries ==
  Quiescent =>
    \A a \in StoredAccounts : balance[a] = PostedDelta(transactions, a)

\* A createJournal, a second one and an editJournal of the first have all
\* succeeded, and entries remain with balances that are not zero.
C22_Witness ==
  /\ Quiescent /\ Len(hist) = 3
  /\ hist[1].op = "create" /\ hist[1].status = 200
  /\ hist[2].op = "create" /\ hist[2].status = 200
  /\ hist[3].op = "edit" /\ hist[3].status = 200 /\ hist[3].id = hist[1].id
  /\ transactions # {}
  /\ balance[1] # 0

RECURSIVE SumBalances(_, _)
\* The sum of the balances of a set of accounts.
SumBalances(bal, accounts) ==
  IF accounts = {} THEN 0
  ELSE LET a == CHOOSE x \in accounts : TRUE
       IN bal[a] + SumBalances(bal, accounts \ {a})

\* The sum of the balances of the debit-normal accounts less that of the
\* credit-normal ones.
TrialDifference(bal) ==
  SumBalances(bal, { a \in StoredAccounts : AccountNormal(a) = "debit" })
    - SumBalances(bal, { a \in StoredAccounts : AccountNormal(a) = "credit" })

\* C23: a successful createJournal, editJournal or deleteJournal leaves the
\* sum of the debit-normal balances less the sum of the credit-normal ones as
\* it was when the request started; and, the balances having started at
\* zero, the two sums are equal whenever no request is in progress.
C23_TrialBalancePreserved ==
  Quiescent =>
    /\ (hist # <<>> /\ Last.status = 200) =>
         TrialDifference(balance) = TrialDifference(Last.pre.balance)
    /\ TrialDifference(balance) = 0

\* A successful createJournal has changed the balances of both accounts.
C23_Witness ==
  /\ Quiescent /\ hist # <<>> /\ Last.op = "create" /\ Last.status = 200
  /\ balance[1] # Last.pre.balance[1]
  /\ balance[2] # Last.pre.balance[2]
  /\ Last.pre.transactions # {}

\* The accounts that the last request's document had entries on as the
\* request started, or that a line of the request with a debit or a credit
\* names.
TouchedAccounts ==
  { t.account : t \in EntriesOf(Last.pre.transactions, Last.id) }
    \cup { Kept(proc["p1"].form.entries)[i].account_id :
             i \in DOMAIN Kept(proc["p1"].form.entries) }

\* C24: after a createJournal, editJournal or deleteJournal on document D,
\* every other document, every entry of another document and the balance of
\* every account that neither D's old entries nor the request's lines name
\* are as they were when the request started.
C24_Frame ==
  (Quiescent /\ hist # <<>> /\ Last.op \in {"create", "edit", "delete"}) =>
    /\ { d \in documents : d.id # Last.id }
         = { d \in Last.pre.documents : d.id # Last.id }
    /\ { t \in transactions : t.reference_id # Last.id }
         = { t \in Last.pre.transactions : t.reference_id # Last.id }
    /\ \A a \in StoredAccounts \ TouchedAccounts :
         balance[a] = Last.pre.balance[a]

\* A successful deleteJournal of a document whose entries name one account,
\* another document being stored with its entries and the other account's
\* balance not zero.
C24_Witness ==
  /\ Quiescent /\ hist # <<>> /\ Last.op = "delete" /\ Last.status = 200
  /\ EntriesOf(Last.pre.transactions, Last.id) # {}
  /\ \E d \in documents : d.id # Last.id /\ EntriesOf(transactions, d.id) # {}
  /\ \E a \in StoredAccounts \ TouchedAccounts : balance[a] # 0

====
